---- MODULE Spec2Model ----
(***************************************************************************)
(* Termius Discord Rich Presence (src/termius_rpc.py): the readers, the    *)
(* fusion of their readings, the continuity key / start timestamp, the     *)
(* mapping to presence strings and the poll loop of main().                *)
(*                                                                         *)
(* A Python str is a sequence of tokens (pieces of text that the code      *)
(* never splits further): '' is << >>, "alice@prod-db" is                  *)
(* <<"alice", "@", "prod-db">>, an f-string is a concatenation.  Enum-like *)
(* strings (mode, protocol, port) are plain strings.  An Optional value    *)
(* and a list of at most one element are sequences of length 0 or 1.       *)
(***************************************************************************)
EXTENDS Integers, Sequences, FiniteSets, TLC

VARIABLES
    pc,                \* where main() is: "poll", "sleep", "exited" or "closed"
    cfg,               \* the configuration _load_config returned
    now,               \* int(time.time())
    current_key,       \* main's current_key
    session_start_ts,  \* main's session_start_ts
    fault,             \* the exception that ended the loop, or "none"
    cycle,             \* the branch the cycle in progress took
    ui, net, fg,       \* the readings of the cycle in progress
    sessions,          \* what get_termius_sessions returned in this cycle
    presence,          \* the last call the Presence Sink received
    previous_session,  \* main's previous_session
    key_before_stop,   \* history: the key held when Termius was seen stopped
    replaced_ts,       \* history: the timestamp this cycle's key change replaced
    carried            \* history: how this cycle's session kept the stored key

vars == <<pc, cfg, now, current_key, session_start_ts, fault, cycle, ui, net, fg,
          sessions, presence, previous_session, key_before_stop, replaced_ts, carried>>

\* ------------------------------------------------------------------ bounds
\* The clock (whole seconds, as int(time.time())) runs from StartTime to MaxTime.
MaxTime == 3

StartTime == 1

\* ----------------------------------------------------------------- strings
None == << >>

Some(x) == <<x>>

Empty == << >>

\* str.lower() on one token.
Lower(tok) ==
    CASE tok = "Terminal" -> "terminal"
      [] tok = "Files"    -> "files"
      [] tok = "SFTP"     -> "sftp"
      [] OTHER            -> tok

LowerStr(s) == [i \in 1..Len(s) |-> Lower(s[i])]

IsSpace(tok) == tok = " "

RECURSIVE LStrip(_)
LStrip(s) == IF s # << >> /\ IsSpace(Head(s)) THEN LStrip(Tail(s)) ELSE s

RECURSIVE RStrip(_)
RStrip(s) ==
    IF s # << >> /\ IsSpace(s[Len(s)]) THEN RStrip(SubSeq(s, 1, Len(s) - 1)) ELSE s

\* str.strip()
Strip(s) == RStrip(LStrip(s))

\* True when the one-token text tok occurs in s.
Contains(s, tok) == \E i \in 1..Len(s) : s[i] = tok

\* str.split('@', 1): <<before, after>> the first "@".
FirstAt(s) == CHOOSE i \in 1..Len(s) : s[i] = "@" /\ \A j \in 1..(i - 1) : s[j] # "@"

SplitAt(s) == <<SubSeq(s, 1, FirstAt(s) - 1), SubSeq(s, FirstAt(s) + 1, Len(s))>>

\* dict.get(key, default)
Get(d, k, default) == IF k \in DOMAIN d THEN d[k] ELSE default

\* -------------------------------------------------------- label classifier
generic ==
    {"termius", "live", "close", "minimize", "maximize", "settings", "search",
     "new tab", "new host", "sftp", "files", "terminal", "ssh", "hosts", "groups",
     "local", "actions", "filter", "root"}

is_generic_label(text) ==
    LET t == Strip(LowerStr(text))
    IN  IF t = << >> THEN TRUE ELSE Len(t) = 1 /\ t[1] \in generic

NamedModes == {"SFTP", "BROWSING", "SETTINGS", "SNIPPETS", "LOGS"}

\* ---------------------------------------------------------------- UI reader
\* What the window/descendant scan (lines 208-359) can leave in label_text,
\* mode and candidate_host.  label_text is stripped, and non-empty only for a
\* name outside skip_set (a title suffix must also be non-generic); the
\* comparison with skip_set is case-sensitive, so a label may still be generic.
UiLabels ==
    {Empty, <<"prod-db">>, <<"alice", "@", "prod-db">>, <<"alice", "@", "10.0.0.5">>,
     <<"alice", "@", " ", "Terminal">>}

UiModes == {"OTHER"} \cup NamedModes

UiCandidates == {Empty, <<"files-srv">>}

UiScans == [label_text : UiLabels, mode : UiModes, candidate_host : UiCandidates]

\* SessionFromScan without lines 399-401: the parsed host is kept in the
\* informational modes.
SessionFromScanKeepsHost(scan) ==
    LET label_text == scan.label_text
        mode == scan.mode
        candidate_host == scan.candidate_host
    IN  IF label_text = Empty
        THEN IF mode \in {"SFTP", "BROWSING", "SETTINGS"}
             THEN Some([hostname |-> IF mode = "SFTP" THEN candidate_host ELSE Empty,
                        username |-> Empty,
                        port     |-> "22",
                        protocol |-> "SSH",
                        mode     |-> mode])
             ELSE None
        ELSE LET hasAt == Contains(label_text, "@")
                 username == IF hasAt THEN SplitAt(label_text)[1] ELSE Empty
                 host0 == IF hasAt THEN SplitAt(label_text)[2] ELSE label_text
                 host1 == IF mode = "SFTP"
                             /\ (host0 = Empty \/ is_generic_label(host0))
                             /\ candidate_host # Empty
                          THEN candidate_host ELSE host0
                 host2 == IF mode = "SFTP" /\ is_generic_label(host1) THEN Empty ELSE host1
             IN  Some([hostname |-> host2,
                       username |-> username,
                       port     |-> "22",
                       protocol |-> "SSH",
                       mode     |-> IF mode \in NamedModes THEN mode ELSE "SSH"])

\* Lines 361-415: the session built from the outcome of the scan.
SessionFromScan(scan) ==
    LET label_text == scan.label_text
        mode == scan.mode
        candidate_host == scan.candidate_host
    IN  IF label_text = Empty
        THEN IF mode \in {"SFTP", "BROWSING", "SETTINGS"}
             THEN Some([hostname |-> IF mode = "SFTP" THEN candidate_host ELSE Empty,
                        username |-> Empty,
                        port     |-> "22",
                        protocol |-> "SSH",
                        mode     |-> mode])
             ELSE None
        ELSE LET hasAt == Contains(label_text, "@")
                 username == IF hasAt THEN SplitAt(label_text)[1] ELSE Empty
                 host0 == IF hasAt THEN SplitAt(label_text)[2] ELSE label_text
                 host1 == IF mode = "SFTP"
                             /\ (host0 = Empty \/ is_generic_label(host0))
                             /\ candidate_host # Empty
                          THEN candidate_host ELSE host0
                 host2 == IF mode = "SFTP" /\ is_generic_label(host1) THEN Empty ELSE host1
                 hostname == IF mode \in {"SETTINGS", "SNIPPETS", "LOGS", "BROWSING"}
                             THEN Empty ELSE host2
             IN  Some([hostname |-> hostname,
                       username |-> username,
                       port     |-> "22",
                       protocol |-> "SSH",
                       mode     |-> IF mode \in NamedModes THEN mode ELSE "SSH"])

\* The outcomes of the UI lookup: the library is missing, the window is not
\* found or the lookup raises ("unavailable"), or the scan completes.
UiOutcomes == {[kind |-> "unavailable"]} \cup {[kind |-> "scan", scan |-> s] : s \in UiScans}

get_active_session_via_ui(outcome) ==
    IF outcome.kind = "unavailable" THEN None ELSE SessionFromScan(outcome.scan)

\* ----------------------------------------------------------- network reader
SshPorts == {22, 2222, 2200, 2022}

\* str(rport)
PortStr(p) ==
    CASE p = 22 -> "22" [] p = 2222 -> "2222" [] p = 2200 -> "2200" [] p = 2022 -> "2022"
      [] OTHER -> "other"

RemoteIps == {<<"10.0.0.5">>}

\* The established connections of the Termius processes that the connection
\* table can show first: none, or one to a remote (ip, port).
Connections ==
    {None} \cup {Some([ip |-> i, port |-> p]) : i \in RemoteIps, p \in {22, 2222, 443}}

\* socket.gethostbyaddr(rip)[0]: a name, or a failure (None).
RdnsOutcomes == {None, Some(<<"db.example.net">>)}

\* Lines 140-181: the first established connection to an SSH-family port.
Candidate(conn) == IF conn # None /\ conn[1].port \in SshPorts THEN conn ELSE None

\* Every candidate the search of the connections can end with.
Candidates == {Candidate(c) : c \in Connections}

\* Lines 183-201.
get_active_session_via_net(candidate, rdns, expose_ip, allow_rdns) ==
    IF candidate = None THEN None
    ELSE LET rip == candidate[1].ip
             rport == candidate[1].port
             host_val == IF expose_ip THEN rip
                         ELSE IF allow_rdns /\ rdns # None THEN rdns[1]
                         ELSE Empty
         IN  Some([hostname |-> host_val,
                   ip       |-> rip,
                   username |-> Empty,
                   port     |-> PortStr(rport),
                   protocol |-> IF rport \in SshPorts THEN "SSH" ELSE "TCP",
                   mode     |-> "SSH"])

\* --------------------------------------------------------- foreground check
\* The lookup names the top-level window ("termius" or "other"), or it raises
\* or the library is missing ("unavailable"): then True is assumed.
FgOutcomes == {"termius", "other", "unavailable"}

is_termius_foreground(outcome) ==
    IF outcome = "unavailable" THEN TRUE ELSE outcome = "termius"

\* ------------------------------------------------------------------- fusion
\* get_termius_sessions without lines 478-479: in the foreground a UI reading
\* is returned with the mode the UI reader gave it.
FusionKeepsUiMode(uiR, netR, foreground) ==
    IF uiR # None /\ uiR[1].mode \in NamedModes
    THEN IF is_generic_label(Get(uiR[1], "hostname", Empty))
         THEN <<[uiR[1] EXCEPT !.hostname = Empty]>>
         ELSE <<uiR[1]>>
    ELSE IF netR # None
    THEN IF uiR # None /\ uiR[1].hostname # Empty /\ ~is_generic_label(uiR[1].hostname)
         THEN <<[netR[1] EXCEPT !.hostname = uiR[1].hostname,
                                !.username = Get(uiR[1], "username", Empty)]>>
         ELSE <<netR[1]>>
    ELSE IF foreground
    THEN IF uiR # None
         THEN <<uiR[1]>>
         ELSE <<[hostname |-> Empty,
                 username |-> Empty,
                 port     |-> "",
                 protocol |-> "SSH",
                 mode     |-> "IDLE"]>>
    ELSE << >>

\* get_termius_sessions without line 472: the UI's hostname is merged into the
\* network reading, its username is not.
FusionKeepsNetUsername(uiR, netR, foreground) ==
    IF uiR # None /\ uiR[1].mode \in NamedModes
    THEN IF is_generic_label(Get(uiR[1], "hostname", Empty))
         THEN <<[uiR[1] EXCEPT !.hostname = Empty]>>
         ELSE <<uiR[1]>>
    ELSE IF netR # None
    THEN IF uiR # None /\ uiR[1].hostname # Empty /\ ~is_generic_label(uiR[1].hostname)
         THEN <<[netR[1] EXCEPT !.hostname = uiR[1].hostname]>>
         ELSE <<netR[1]>>
    ELSE IF foreground
    THEN IF uiR # None
         THEN IF uiR[1].mode \notin NamedModes
              THEN <<[uiR[1] EXCEPT !.mode = "IDLE"]>>
              ELSE <<uiR[1]>>
         ELSE <<[hostname |-> Empty,
                 username |-> Empty,
                 port     |-> "",
                 protocol |-> "SSH",
                 mode     |-> "IDLE"]>>
    ELSE << >>

\* get_termius_sessions with the UI reader's default port in the synthetic
\* session of lines 482-488.
FusionIdleDefaultPort(uiR, netR, foreground) ==
    IF uiR # None /\ uiR[1].mode \in NamedModes
    THEN IF is_generic_label(Get(uiR[1], "hostname", Empty))
         THEN <<[uiR[1] EXCEPT !.hostname = Empty]>>
         ELSE <<uiR[1]>>
    ELSE IF netR # None
    THEN IF uiR # None /\ uiR[1].hostname # Empty /\ ~is_generic_label(uiR[1].hostname)
         THEN <<[netR[1] EXCEPT !.hostname = uiR[1].hostname,
                                !.username = Get(uiR[1], "username", Empty)]>>
         ELSE <<netR[1]>>
    ELSE IF foreground
    THEN IF uiR # None
         THEN IF uiR[1].mode \notin NamedModes
              THEN <<[uiR[1] EXCEPT !.mode = "IDLE"]>>
              ELSE <<uiR[1]>>
         ELSE <<[hostname |-> Empty,
                 username |-> Empty,
                 port     |-> "22",
                 protocol |-> "SSH",
                 mode     |-> "IDLE"]>>
    ELSE << >>

\* foreground is the result of _is_termius_foreground(), called at line 476.
get_termius_sessions(uiR, netR, foreground) ==
    IF uiR # None /\ uiR[1].mode \in NamedModes
    THEN IF is_generic_label(Get(uiR[1], "hostname", Empty))
         THEN <<[uiR[1] EXCEPT !.hostname = Empty]>>
         ELSE <<uiR[1]>>
    ELSE IF netR # None
    THEN IF uiR # None /\ uiR[1].mode = "SFTP"
         THEN <<[hostname |-> Empty,
                 username |-> Empty,
                 port     |-> Get(netR[1], "port", ""),
                 protocol |-> "SSH",
                 mode     |-> "SFTP"]>>
         ELSE IF uiR # None /\ uiR[1].hostname # Empty /\ ~is_generic_label(uiR[1].hostname)
         THEN <<[netR[1] EXCEPT !.hostname = uiR[1].hostname,
                                !.username = Get(uiR[1], "username", Empty)]>>
         ELSE <<netR[1]>>
    ELSE IF foreground
    THEN IF uiR # None
         THEN IF uiR[1].mode \notin NamedModes
              THEN <<[uiR[1] EXCEPT !.mode = "IDLE"]>>
              ELSE <<uiR[1]>>
         ELSE <<[hostname |-> Empty,
                 username |-> Empty,
                 port     |-> "",
                 protocol |-> "SSH",
                 mode     |-> "IDLE"]>>
    ELSE << >>

\* ------------------------------------------------------------ configuration
\* The "texts" section as _load_config leaves it: every key present, with the
\* template's value unless config.json sets another.
DefaultTexts ==
    [details_connected |-> <<"Connected via Termius">>,
     details_hosts     |-> <<"Termius Hosts">>,
     details_settings  |-> <<"Termius Settings">>,
     details_snippets  |-> <<"Termius Snippets">>,
     details_logs      |-> <<"Termius Logs">>,
     state_sftp        |-> <<"Browsing in SFTP">>,
     state_browsing    |-> <<"Browsing for servers">>,
     state_settings    |-> <<"Viewing settings">>,
     state_snippets    |-> <<"Viewing Snippets">>,
     state_logs        |-> <<"Viewing logs">>,
     state_idle        |-> <<"Idle in Termius">>,
     state_active_ssh  |-> <<"Active SSH session">>,
     details_idle      |-> <<"No active connections">>]

\* A config.json that sets every text.
CustomTexts ==
    [details_connected |-> <<"my details_connected">>,
     details_hosts     |-> <<"my details_hosts">>,
     details_settings  |-> <<"my details_settings">>,
     details_snippets  |-> <<"my details_snippets">>,
     details_logs      |-> <<"my details_logs">>,
     state_sftp        |-> <<"my state_sftp">>,
     state_browsing    |-> <<"my state_browsing">>,
     state_settings    |-> <<"my state_settings">>,
     state_snippets    |-> <<"my state_snippets">>,
     state_logs        |-> <<"my state_logs">>,
     state_idle        |-> <<"my state_idle">>,
     state_active_ssh  |-> <<"my state_active_ssh">>,
     details_idle      |-> <<"my details_idle">>]

DefaultAssets ==
    [large_image |-> <<"termius">>,
     large_text  |-> <<"Termius SSH Client">>,
     small_image |-> <<"ssh_icon">>]

\* int(cfg['update_interval_seconds']) in whole seconds: 0 (sleep returns at
\* once) or at least one second.
UpdateIntervals == {0, 1}

\* The configuration of the template (line 42), with an interval of one second.
DefaultConfig ==
    [expose_ip_in_presence   |-> FALSE,
     allow_reverse_dns       |-> FALSE,
     texts                   |-> DefaultTexts,
     assets                  |-> DefaultAssets,
     update_interval_seconds |-> 1]

\* The template's configuration and every configuration that changes one of
\* its settings.
Configs ==
    {DefaultConfig}
    \cup {[DefaultConfig EXCEPT !.expose_ip_in_presence = TRUE]}
    \cup {[DefaultConfig EXCEPT !.allow_reverse_dns = TRUE]}
    \cup {[DefaultConfig EXCEPT !.texts = CustomTexts]}
    \cup {[DefaultConfig EXCEPT !.update_interval_seconds = i] : i \in UpdateIntervals}

\* --------------------------------------------------------------- continuity
\* IdentityKey with the mode and the port in the key.
IdentityKeyWithModeAndPort(session) ==
    LET uname == Get(session, "username", Empty)
        host == Get(session, "hostname", Empty)
        internal_ip == Get(session, "ip", Empty)
        proto == IF Get(session, "protocol", "") = "" THEN "SSH" ELSE session.protocol
        identity_host == IF host # Empty THEN host ELSE internal_ip
    IN  IF uname # Empty
        THEN <<proto, ":">> \o uname \o <<"@">> \o identity_host
                 \o <<":", Get(session, "port", ""), "/", Get(session, "mode", "")>>
        ELSE <<proto, ":">> \o identity_host
                 \o <<":", Get(session, "port", ""), "/", Get(session, "mode", "")>>

\* Lines 528-534: the identity key of a session.
IdentityKey(session) ==
    LET uname == Get(session, "username", Empty)
        host == Get(session, "hostname", Empty)
        internal_ip == Get(session, "ip", Empty)
        proto == IF Get(session, "protocol", "") = "" THEN "SSH" ELSE session.protocol
        identity_host == IF host # Empty THEN host ELSE internal_ip
    IN  IF uname # Empty
        THEN <<proto, ":">> \o uname \o <<"@">> \o identity_host
        ELSE <<proto, ":">> \o identity_host

\* UpdateContinuity without the comparison of line 537: every session
\* restarts the clock.
AlwaysRefresh(key, cur_key, start_ts, t) ==
    [current_key |-> Some(key), session_start_ts |-> Some(t)]

\* Lines 537-539: the key and start timestamp after a session with this key.
UpdateContinuity(key, cur_key, start_ts, t) ==
    IF Some(key) # cur_key
    THEN [current_key |-> Some(key), session_start_ts |-> Some(t)]
    ELSE [current_key |-> cur_key, session_start_ts |-> start_ts]

\* ResetContinuity without lines 588-589: the key and timestamp survive a stop.
KeepContinuity == [current_key |-> current_key, session_start_ts |-> session_start_ts]

\* NoSessionContinuity with the assignments of lines 588-589 copied into the
\* branch of lines 579-585.
NoSessionResets == [current_key |-> None, session_start_ts |-> None]

\* Lines 579-585: the branch without a session assigns neither variable.
NoSessionContinuity ==
    [current_key |-> current_key, session_start_ts |-> session_start_ts]

\* Lines 588-589.
ResetContinuity == [current_key |-> None, session_start_ts |-> None]

\* ------------------------------------------------------------- presentation
\* str.upper() on a mode.
Upper(m) ==
    CASE m = "ssh" -> "SSH" [] m = "sftp" -> "SFTP" [] m = "idle" -> "IDLE" [] OTHER -> m

\* Lines 542-568: the state and details strings of a session.
Presentation(session, texts) ==
    LET uname == Get(session, "username", Empty)
        host == Get(session, "hostname", Empty)
        mode == Upper(IF Get(session, "mode", "") = "" THEN "SSH" ELSE session.mode)
        connected == texts.details_connected
    IN  CASE mode = "SFTP"     -> [state |-> texts.state_sftp, details |-> connected]
          [] mode = "BROWSING" -> [state |-> texts.state_browsing,
                                   details |-> texts.details_hosts]
          [] mode = "SETTINGS" -> [state |-> texts.state_settings,
                                   details |-> texts.details_settings]
          [] mode = "SNIPPETS" -> [state |-> texts.state_snippets,
                                   details |-> texts.details_snippets]
          [] mode = "LOGS"     -> [state |-> texts.state_logs,
                                   details |-> texts.details_logs]
          [] mode = "IDLE"     -> [state |-> texts.state_idle,
                                   details |-> <<"No active connections">>]
          [] OTHER ->
               [state |-> IF uname # Empty /\ host # Empty
                          THEN <<"SSH to ">> \o uname \o <<"@">> \o host
                          ELSE IF host # Empty
                          THEN <<"SSH to ">> \o host
                          ELSE texts.state_active_ssh,
                details |-> connected]

\* Lines 570-578: the arguments of RPC.update for a session.
SessionUpdate(session, config, start_ts, t) ==
    LET p == Presentation(session, config.texts)
    IN  [call        |-> "update",
         state       |-> Some(p.state),
         details     |-> Some(p.details),
         large_image |-> Some(config.assets.large_image),
         large_text  |-> Some(config.assets.large_text),
         small_image |-> Some(config.assets.small_image),
         small_text  |-> Some(<<Get(session, "protocol", "SSH")>>),
         start       |-> IF start_ts # None /\ start_ts[1] # 0 THEN start_ts ELSE Some(t)]

\* Lines 580-585: the arguments of RPC.update when fusion reports no session.
IdleUpdate(config) ==
    [call        |-> "update",
     state       |-> Some(config.texts.state_idle),
     details     |-> Some(<<"No active connections">>),
     large_image |-> Some(config.assets.large_image),
     large_text  |-> Some(config.assets.large_text),
     small_image |-> None,
     small_text  |-> None,
     start       |-> None]

\* A Presence Sink call without arguments: connect, clear or close.
SinkCall(name) ==
    [call |-> name, state |-> None, details |-> None, large_image |-> None,
     large_text |-> None, small_image |-> None, small_text |-> None, start |-> None]

\* ------------------------------------------------------------ the poll loop
\* Every reading the UI reader can return.
UiReadings == {get_active_session_via_ui(o) : o \in UiOutcomes}

\* The values of the cycle's readings outside a cycle (locals of
\* get_termius_sessions and of the loop body that are dead at the loop head).
NoReadings == [ui |-> None, net |-> None, fg |-> FALSE, sessions |-> << >>]

\* main() up to the loop: config loaded, RPC connected, no session seen yet.
Init ==
    /\ pc = "poll"
    /\ cfg \in Configs
    /\ now = StartTime
    /\ current_key = None
    /\ session_start_ts = None
    /\ fault = "none"
    /\ cycle = "none"
    /\ ui = NoReadings.ui
    /\ net = NoReadings.net
    /\ fg = NoReadings.fg
    /\ sessions = NoReadings.sessions
    /\ presence = SinkCall("connect")
    /\ previous_session = None
    /\ key_before_stop = None
    /\ replaced_ts = None
    /\ carried = None

\* Every result of the foreground check.
Foregrounds == {is_termius_foreground(o) : o \in FgOutcomes}

\* The readings of one call of get_termius_sessions: the UI reading u, the
\* candidate connection c of the network reader, the reverse lookup r and the
\* result f of the foreground check.
Sense(u, c, r, f) ==
    LET n == get_active_session_via_net(c, r, cfg.expose_ip_in_presence,
                                        cfg.allow_reverse_dns)
    IN  /\ ui' = u
        /\ net' = n
        /\ fg' = f
        /\ sessions' = get_termius_sessions(u, n, f)

\* The reverse lookup is made only when the policy asks for it.
RdnsChoices ==
    IF ~cfg.expose_ip_in_presence /\ cfg.allow_reverse_dns THEN RdnsOutcomes ELSE {None}

\* Lines 522-585: Termius runs.  When fusion returns a session it is keyed,
\* presented and published; when it returns none the idle presence is published
\* and the continuity state is left alone.
PollRunning ==
    /\ pc = "poll"
    /\ \E u \in UiReadings, c \in Candidates, r \in RdnsChoices, f \in Foregrounds :
         /\ Sense(u, c, r, f)
         /\ IF sessions' # << >>
            THEN LET session == sessions'[1]
                     cont == UpdateContinuity(IdentityKey(session), current_key,
                                              session_start_ts, now)
                 IN  /\ current_key' = cont.current_key
                     /\ session_start_ts' = cont.session_start_ts
                     /\ presence' = SessionUpdate(session, cfg, cont.session_start_ts, now)
                     /\ cycle' = "session"
                     /\ previous_session' = Some(session)
                     /\ replaced_ts' = IF cont.current_key # current_key
                                       THEN Some(session_start_ts) ELSE None
                     /\ carried' =
                          IF cont.current_key = current_key
                          THEN Some([gap |-> presence = IdleUpdate(cfg),
                                     changed |->
                                        \/ previous_session[1].mode # session.mode
                                        \/ previous_session[1].port # session.port])
                          ELSE None
            ELSE /\ presence' = IdleUpdate(cfg)
                 /\ cycle' = "nosession"
                 /\ current_key' = NoSessionContinuity.current_key
                 /\ session_start_ts' = NoSessionContinuity.session_start_ts
                 /\ UNCHANGED <<previous_session, replaced_ts, carried>>
    /\ pc' = "sleep"
    /\ UNCHANGED <<cfg, now, fault, key_before_stop>>

\* Lines 586-590: Termius does not run.
PollNotRunning ==
    /\ pc = "poll"
    /\ presence' = SinkCall("clear")
    /\ current_key' = ResetContinuity.current_key
    /\ session_start_ts' = ResetContinuity.session_start_ts
    /\ cycle' = "notrunning"
    /\ key_before_stop' = IF key_before_stop = None THEN Some(current_key)
                          ELSE key_before_stop
    /\ pc' = "sleep"
    /\ UNCHANGED <<cfg, now, fault, ui, net, fg, sessions, previous_session,
                   replaced_ts, carried>>

\* Lines 597-600: an exception reaches the handler around the loop, which
\* closes the sink and ends the process; the loop's locals are gone.
Exit(cause) ==
    /\ fault' = cause
    /\ pc' = "exited"
    /\ presence' = SinkCall("close")
    /\ current_key' = None
    /\ session_start_ts' = None
    /\ ui' = NoReadings.ui
    /\ net' = NoReadings.net
    /\ fg' = NoReadings.fg
    /\ sessions' = NoReadings.sessions
    /\ previous_session' = None
    /\ key_before_stop' = None
    /\ replaced_ts' = None
    /\ carried' = None
    /\ UNCHANGED <<cfg, now>>

\* Lines 111-117, 522: psutil.process_iter raises in is_termius_running, which
\* has no handler.
LivenessCheckFails ==
    /\ pc = "poll"
    /\ cycle' = "none"
    /\ Exit("liveness_process_iter")

\* Lines 119-129, 136, 162-166: in the network reader process_iter raises
\* (the try of _find_termius_processes is inside the loop body), or
\* Process.connections raises something other than NoSuchProcess/AccessDenied.
NetReaderFails ==
    /\ pc = "poll"
    /\ cycle' = "running"
    /\ \E cause \in {"net_process_iter", "net_connections"} : Exit(cause)

\* Lines 570, 580, 587: RPC.update or RPC.clear raises.
SinkFails ==
    /\ pc = "poll"
    /\ \E kind \in {"session", "nosession", "notrunning"} :
         /\ cycle' = kind
         /\ Exit(IF kind = "notrunning" THEN "sink_clear" ELSE "sink_update")

\* Lines 594-596: Ctrl+C during a cycle or the sleep.
Interrupt ==
    /\ pc \in {"poll", "sleep"}
    /\ pc' = "closed"
    /\ fault' = "interrupt"
    /\ presence' = SinkCall("close")
    /\ UNCHANGED <<cfg, now, current_key, session_start_ts, cycle, ui, net, fg, sessions,
                   previous_session, key_before_stop, replaced_ts, carried>>

\* Line 592: time.sleep(interval) returns after at least interval seconds; the
\* clock is read in whole seconds, so it shows interval or more seconds later
\* (the same second again only when the interval is 0).
Sleep ==
    /\ pc = "sleep"
    /\ \E d \in {cfg.update_interval_seconds, cfg.update_interval_seconds + 1} :
         /\ now + d <= MaxTime
         /\ now' = now + d
    /\ pc' = "poll"
    /\ cycle' = "none"
    /\ ui' = NoReadings.ui
    /\ net' = NoReadings.net
    /\ fg' = NoReadings.fg
    /\ sessions' = NoReadings.sessions
    /\ key_before_stop' = IF cycle = "session" THEN None ELSE key_before_stop
    /\ replaced_ts' = None
    /\ carried' = None
    /\ UNCHANGED <<cfg, fault, current_key, session_start_ts, presence, previous_session>>

Next ==
    \/ PollRunning
    \/ PollNotRunning
    \/ LivenessCheckFails
    \/ NetReaderFails
    \/ SinkFails
    \/ Interrupt
    \/ Sleep

Spec == Init /\ [][Next]_vars

\* ------------------------------------------------------------------- claims
\* The cycle that took the branch `kind` has run to its end: its readings, its
\* fused session and its sink call are the ones in the state.
Completed(kind) == pc = "sleep" /\ cycle = kind

PresenceStrings == {"state", "details", "large_image", "large_text", "small_image", "small_text"}

\* C1: a failure of a Presence Sink call (update or clear) during a cycle is
\* caught in that cycle: after it the loop is still running.
C1_SinkFailureCaught == fault \in {"sink_update", "sink_clear"} => pc \in {"poll", "sleep"}

\* A cycle that publishes a session.
PublishStep == pc = "poll" /\ pc' = "sleep" /\ cycle' = "session"

\* C2 as stated: a published session with the stored key leaves the start
\* timestamp alone, and one with another key sets a timestamp strictly greater
\* than the one it replaces.
C2_StrictlyGreater ==
    [][PublishStep =>
         IF Some(IdentityKey(sessions'[1])) = current_key
         THEN session_start_ts' = session_start_ts
         ELSE /\ session_start_ts' # None
              /\ session_start_ts # None => session_start_ts'[1] > session_start_ts[1]]_vars

\* C2 amended: a published session with the stored key leaves the start
\* timestamp alone; one with another key sets it to the clock's reading, which
\* is never less than the timestamp it replaces and is strictly greater when
\* the update interval is at least one second.
C2_FreshTimestamp ==
    [][PublishStep =>
         IF Some(IdentityKey(sessions'[1])) = current_key
         THEN session_start_ts' = session_start_ts
         ELSE /\ session_start_ts' = Some(now)
              /\ session_start_ts # None =>
                   /\ session_start_ts'[1] >= session_start_ts[1]
                   /\ cfg.update_interval_seconds >= 1 =>
                        session_start_ts'[1] > session_start_ts[1]]_vars

\* A key change has replaced an earlier timestamp by a greater one.
C2_Witness ==
    /\ Completed("session")
    /\ replaced_ts # None
    /\ replaced_ts[1] # None
    /\ session_start_ts[1] > replaced_ts[1][1]

\* C3: with no network reading and Termius not in the foreground, fusion
\* returns no session, whatever the UI reading is.
C3_AbsentWhenBackground ==
    (pc = "sleep" /\ cycle \in {"session", "nosession"} /\ net = None /\ ~fg)
        => sessions = << >>

\* C4: with a UI reading of mode SFTP and a network reading, the fused session
\* has no hostname and no username, mode SFTP, protocol SSH and the port of
\* the network reading.
C4_SftpTakesNetPort ==
    (Completed("session") /\ ui # None /\ ui[1].mode = "SFTP" /\ net # None)
        => /\ sessions[1].hostname = Empty
           /\ sessions[1].username = Empty
           /\ sessions[1].mode = "SFTP"
           /\ sessions[1].protocol = "SSH"
           /\ sessions[1].port = net[1].port

\* C5: a fused session of mode BROWSING, SETTINGS, SNIPPETS or LOGS has an
\* empty hostname, for every UI reading, network reading and foreground value.
C5_InformationalModesHaveNoHost ==
    (Completed("session") /\ sessions[1].mode \in {"BROWSING", "SETTINGS", "SNIPPETS", "LOGS"})
        => sessions[1].hostname = Empty

\* A BROWSING session fused from a label that named a user and a host.
C5_Witness ==
    /\ Completed("session")
    /\ sessions[1].mode = "BROWSING"
    /\ sessions[1].username # Empty
    /\ net # None

\* C6: with expose_ip_in_presence off, no string passed to the sink contains
\* the remote IP of the connection the network reader found.
C6_IpNeverPublished ==
    (pc = "sleep" /\ cycle \in {"session", "nosession"}
        /\ ~cfg.expose_ip_in_presence /\ net # None)
        => \A f \in PresenceStrings :
             presence[f] # None => ~Contains(presence[f][1], net[1].ip[1])

\* The state strings of the SSH branch (lines 562-568).
IsSshState(s) == s = cfg.texts.state_active_ssh \/ (s # Empty /\ Head(s) = "SSH to ")

\* C7: without a network reading the fused result is absent or has a mode
\* other than SSH, and the state published in that cycle is no SSH string.
C7_SshNeedsNetwork ==
    (pc = "sleep" /\ cycle \in {"session", "nosession"} /\ net = None)
        => /\ sessions = << >> \/ sessions[1].mode # "SSH"
           /\ ~IsSshState(presence.state[1])

\* The UI reader reports an SSH tab, there is no connection and Termius is in
\* the foreground: the session is published as IDLE.
C7_Witness ==
    /\ Completed("session")
    /\ net = None
    /\ ui # None
    /\ ui[1].mode = "SSH"
    /\ ui[1].hostname # Empty
    /\ sessions[1].mode = "IDLE"

\* C8: a cycle that finds Termius not running empties current_key and
\* session_start_ts, and the first session published afterwards gets the
\* clock's reading of its own cycle as start timestamp.
C8_StopResetsContinuity ==
    /\ Completed("notrunning") => current_key = None /\ session_start_ts = None
    /\ (Completed("session") /\ key_before_stop # None)
           => /\ session_start_ts = Some(now)
              /\ presence.start = Some(now)

\* The first session after a stop has the key that was held before the stop,
\* and the clock has moved on since that key got its timestamp.
C8_Witness ==
    /\ Completed("session")
    /\ key_before_stop # None
    /\ key_before_stop[1] = current_key
    /\ cfg.update_interval_seconds >= 1
    /\ session_start_ts = Some(now)

\* C9: a failure of one OS-introspection call in a cycle (the process listing
\* of the liveness check or of the network reader, the connection listing) is
\* recovered in the cycle and never ends the loop.
C9_IntrospectionFailureRecovered ==
    fault \in {"liveness_process_iter", "net_process_iter", "net_connections"}
        => pc \in {"poll", "sleep"}

\* The texts keys of a mode: its state, and its details (the SFTP branch has no
\* details of its own and publishes details_connected).
TemplateOf(mode) ==
    CASE mode = "SFTP"     -> [state |-> "state_sftp",     details |-> "details_connected"]
      [] mode = "BROWSING" -> [state |-> "state_browsing", details |-> "details_hosts"]
      [] mode = "SETTINGS" -> [state |-> "state_settings", details |-> "details_settings"]
      [] mode = "SNIPPETS" -> [state |-> "state_snippets", details |-> "details_snippets"]
      [] mode = "LOGS"     -> [state |-> "state_logs",     details |-> "details_logs"]
      [] mode = "IDLE"     -> [state |-> "state_idle",     details |-> "details_idle"]

\* C10: for a session of mode SFTP, BROWSING, SETTINGS, SNIPPETS, LOGS or IDLE
\* the published state and details are the configured texts of that mode (for
\* IDLE state_idle and details_idle), whatever the texts are; with the default
\* texts BROWSING gives "Termius Hosts" and "Browsing for servers".
C10_TemplatesPublished ==
    (Completed("session") /\ sessions[1].mode \in NamedModes \cup {"IDLE"})
        => /\ presence.state = Some(cfg.texts[TemplateOf(sessions[1].mode).state])
           /\ presence.details = Some(cfg.texts[TemplateOf(sessions[1].mode).details])
           /\ (cfg.texts = DefaultTexts /\ sessions[1].mode = "BROWSING")
                 => /\ presence.details = Some(<<"Termius Hosts">>)
                    /\ presence.state = Some(<<"Browsing for servers">>)

\* C11: with a network reading and a UI reading whose mode is none of SFTP,
\* BROWSING, SETTINGS, SNIPPETS, LOGS and whose hostname is not generic, the
\* fused session has the UI's hostname and username and the network reading's
\* ip, port and mode SSH; the published state is "SSH to {username}@{hostname}"
\* with a username and "SSH to {hostname}" without one.
C11_UiLabelOverNetwork ==
    (Completed("session") /\ net # None /\ ui # None
        /\ ui[1].mode \notin NamedModes /\ ~is_generic_label(ui[1].hostname))
        => /\ Len(sessions) = 1
           /\ sessions[1].hostname = ui[1].hostname
           /\ sessions[1].username = ui[1].username
           /\ sessions[1].ip = net[1].ip
           /\ sessions[1].port = net[1].port
           /\ sessions[1].protocol = net[1].protocol
           /\ sessions[1].mode = "SSH"
           /\ presence.state =
                Some(IF ui[1].username # Empty
                     THEN <<"SSH to ">> \o ui[1].username \o <<"@">> \o ui[1].hostname
                     ELSE <<"SSH to ">> \o ui[1].hostname)

\* The label "alice@prod-db" over a connection on port 2222 is published as
\* "SSH to alice@prod-db".
C11_Witness ==
    /\ Completed("session")
    /\ net # None
    /\ net[1].port = "2222"
    /\ ui # None
    /\ ui[1].mode = "SSH"
    /\ ui[1].username = <<"alice">>
    /\ ui[1].hostname = <<"prod-db">>
    /\ presence.state = Some(<<"SSH to ", "alice", "@", "prod-db">>)

\* C12: Termius in the foreground, no UI reading and no network reading: fusion
\* returns exactly one session, of mode IDLE, whose hostname, username, ip and
\* port are empty.
C12_SyntheticIdle ==
    (Completed("session") /\ ui = None /\ net = None /\ fg)
        => /\ Len(sessions) = 1
           /\ sessions[1].mode = "IDLE"
           /\ Get(sessions[1], "hostname", Empty) = Empty
           /\ Get(sessions[1], "username", Empty) = Empty
           /\ Get(sessions[1], "ip", Empty) = Empty
           /\ Get(sessions[1], "port", "") = ""

\* The synthetic session has been published as idle.
C12_Witness ==
    /\ Completed("session")
    /\ ui = None
    /\ net = None
    /\ fg
    /\ presence.state = Some(cfg.texts.state_idle)


\* A poll cycle that found Termius running and no session.
NoSessionStep == pc = "poll" /\ pc' = "sleep" /\ cycle' = "nosession"

\* C13: a cycle in which Termius runs but fusion returns no session leaves
\* current_key and session_start_ts as they were, and a session published right
\* after such a cycle under the stored key carries the stored start timestamp;
\* by induction the same holds after any number of such cycles.
C13_GapKeepsContinuity ==
    [][/\ NoSessionStep =>
            /\ current_key' = current_key
            /\ session_start_ts' = session_start_ts
       /\ (PublishStep /\ presence = IdleUpdate(cfg)
              /\ Some(IdentityKey(sessions'[1])) = current_key) =>
            /\ session_start_ts' = session_start_ts
            /\ presence'.start = session_start_ts]_vars

\* A session published after a gap, under the key and the timestamp it had
\* before the gap, at a later clock reading.
C13_Witness ==
    /\ Completed("session")
    /\ carried # None
    /\ carried[1].gap
    /\ session_start_ts # None
    /\ session_start_ts[1] < now
    /\ presence.start = session_start_ts

\* The host of the identity key: the hostname, or the ip when it is empty.
HostnameOrIp(session) ==
    IF Get(session, "hostname", Empty) # Empty
    THEN session.hostname ELSE Get(session, "ip", Empty)

\* Two sessions that differ in mode and/or port and in nothing the identity
\* key is built from.
DifferOnlyInModeOrPort(a, b) ==
    /\ Get(a, "protocol", "") = Get(b, "protocol", "")
    /\ Get(a, "username", Empty) = Get(b, "username", Empty)
    /\ HostnameOrIp(a) = HostnameOrIp(b)
    /\ \/ Get(a, "mode", "") # Get(b, "mode", "")
       \/ Get(a, "port", "") # Get(b, "port", "")

\* C14 as stated: between two consecutive published sessions that differ only
\* in mode and/or port, the start timestamp is not refreshed.
C14_NeverRefreshed ==
    [][(PublishStep /\ previous_session # None
           /\ DifferOnlyInModeOrPort(previous_session[1], sessions'[1]))
          => session_start_ts' = session_start_ts]_vars

\* C14, amended: between two consecutive published sessions that differ only
\* in mode and/or port, the start timestamp is not refreshed, provided no cycle
\* between them found Termius not running (the stored key is still there).
C14_NotRefreshedWhileRunning ==
    [][(PublishStep /\ previous_session # None /\ current_key # None
           /\ DifferOnlyInModeOrPort(previous_session[1], sessions'[1]))
          => /\ session_start_ts' = session_start_ts
             /\ presence'.start = session_start_ts]_vars

\* SETTINGS published after a session of another mode with the same empty
\* host, under the start timestamp of that earlier session.
C14_Witness ==
    /\ Completed("session")
    /\ carried # None
    /\ carried[1].changed
    /\ sessions[1].mode = "SETTINGS"
    /\ previous_session = Some(sessions[1])
    /\ session_start_ts # None
    /\ session_start_ts[1] < now
    /\ presence.start = session_start_ts

====
